---------------------------- MODULE Spec2Model ----------------------------
(*************************************************************************)
(* Job-shop example (examples/job_shop_problem.py): the Data instance,   *)
(* the JSPModel builder (createVars, createConstrs, createObj), the      *)
(* solve step against the CP-SAT engine, and the extraction, formatting  *)
(* and logging of the solution.                                          *)
(*                                                                       *)
(* Python values are represented as follows.  A task (machine, duration) *)
(* is the tuple <<machine, duration>>; a job is a sequence of tasks and  *)
(* a job list a sequence of jobs.  job_id and task_id are zero-based, as *)
(* enumerate() yields them.  An optional value (a name that may be       *)
(* unbound, a result that may be None) is a sequence of length 0 or 1.   *)
(* A dict is a function whose DOMAIN is its key set.                     *)
(*************************************************************************)
EXTENDS Integers, Sequences, FiniteSets, TLC

\* ----------------------------------------------------------------------
\* Bounds of the enumerated inputs
\* ----------------------------------------------------------------------
MaxJobs == 2
MaxOps == 2
MaxMachine == 1
MaxDur == 1
MaxSlack == 1

\* ----------------------------------------------------------------------
\* Generic helpers
\* ----------------------------------------------------------------------
Range(s) == {s[i] : i \in 1..Len(s)}

SeqsUpTo(S, n) == UNION {[1..k -> S] : k \in 0..n}

RECURSIVE SumSeq(_)
SumSeq(s) == IF s = <<>> THEN 0 ELSE s[1] + SumSeq(Tail(s))

SetMax(S) == CHOOSE x \in S : \A y \in S : y <= x

RECURSIVE Flatten(_)
Flatten(ss) == IF ss = <<>> THEN <<>> ELSE ss[1] \o Flatten(Tail(ss))

None == <<>>
Some(v) == <<v>>

\* ----------------------------------------------------------------------
\* Inputs
\* ----------------------------------------------------------------------
\* the job list literal of the script
MainJobs ==
    << << <<0, 3>>, <<1, 2>>, <<2, 2>> >>,
       << <<0, 2>>, <<2, 1>>, <<1, 4>> >>,
       << <<1, 4>>, <<2, 3>> >> >>

Operations == (0..MaxMachine) \X (0..MaxDur)

\* the job lists of at most n jobs and at most k operations in total
RECURSIVE JobLists(_, _)
JobLists(n, k) ==
    {<<>>} \cup
    (IF n = 0 THEN {}
     ELSE UNION {{<<job>> \o rest : rest \in JobLists(n - 1, k - Len(job))} :
                    job \in SeqsUpTo(Operations, k)})

Instances == JobLists(MaxJobs, MaxOps) \cup {MainJobs}

\* the list another caller hands to Data while the module's own jobs_data
\* is bound to a different one: a single job of one unit task on machine 0
OtherLists == {<< << <<0, 1>> >> >>}

\* all tasks of a job list, in discovery order
Tasks(jobs) == Flatten(jobs)

MaxLenOf(jobs) == SetMax({0} \cup {Len(jobs[j]) : j \in 1..Len(jobs)})

\* section 4.1 of the specification: what it calls a valid instance
ValidInstance(jobs) ==
    /\ jobs # <<>>
    /\ \A j \in 1..Len(jobs) :
          /\ jobs[j] # <<>>
          /\ \A t \in 1..Len(jobs[j]) : jobs[j][t][1] >= 0 /\ jobs[j][t][2] > 0

\* ----------------------------------------------------------------------
\* State
\* ----------------------------------------------------------------------
VARIABLES
    jobs_data,            \* module-level name jobs_data: None (unbound) or Some(job list)
    arg,                  \* the _jobs_data argument given to Data(...)
    data,                 \* the Data object: jobs_data, machines_count, horizon
    pc,                   \* position of the run
    raised,               \* the exception that ended the run, "" if none
    all_tasks,            \* JSPModel.all_tasks: (job_id, task_id) -> variables
    machine_to_intervals, \* JSPModel.machine_to_intervals: machine -> intervals
    no_overlap,           \* no-overlap constraints posted on the CpModel
    precedence,           \* linear constraints posted: <<next, prev>> for start(next) >= end(prev)
    objective,            \* None, or Some(makespan variable and its max-equality)
    status,               \* JSPModel.status
    solution,             \* values the solver holds after solve
    assigned_jobs,        \* result of the last extract_solution call held by the caller
    output,               \* result of the last format_solution call
    log,                  \* records emitted by the most recent logging call
    reads                 \* variables read through solver.value by the last extraction

vars == <<jobs_data, arg, data, pc, raised, all_tasks, machine_to_intervals,
          no_overlap, precedence, objective, status, solution,
          assigned_jobs, output, log, reads>>

builderVars == <<all_tasks, machine_to_intervals, no_overlap, precedence, objective>>
resultVars == <<assigned_jobs, output, log, reads>>

NoData == [jobs_data |-> <<>>, machines_count |-> 0, horizon |-> 0]
NoSolution == [start |-> <<>>, end |-> <<>>, makespan |-> 0]

Init ==
    /\ jobs_data \in {None} \cup {Some(J) : J \in Instances}
    /\ arg = <<>>
    /\ data = NoData
    /\ pc = "start"
    /\ raised = ""
    /\ all_tasks = <<>>
    /\ machine_to_intervals = <<>>
    /\ no_overlap = {}
    /\ precedence = {}
    /\ objective = None
    /\ status = "NONE"
    /\ solution = NoSolution
    /\ assigned_jobs = None
    /\ output = None
    /\ log = <<>>
    /\ reads = {}

\* ----------------------------------------------------------------------
\* Data.__init__
\* ----------------------------------------------------------------------
machines_count(_jobs_data) == 1 + SetMax({task[1] : task \in Range(Tasks(_jobs_data))})

horizon(_jobs_data) == SumSeq([i \in 1..Len(Tasks(_jobs_data)) |-> Tasks(_jobs_data)[i][2]])

all_machines(d) == 0..(d.machines_count - 1)

\* Data(_jobs_data): the attribute jobs_data is read from the module-level
\* name jobs_data, the derived attributes from the argument.
DataInit(_jobs_data) ==
    /\ pc = "start"
    /\ arg' = _jobs_data
    /\ IF jobs_data = None
          THEN /\ raised' = "NameError"
               /\ pc' = "error"
               /\ data' = data
          ELSE IF Tasks(_jobs_data) = <<>>
          THEN /\ raised' = "ValueError"
               /\ pc' = "error"
               /\ data' = data
          ELSE /\ data' = [jobs_data |-> jobs_data[1],
                           machines_count |-> machines_count(_jobs_data),
                           horizon |-> horizon(_jobs_data)]
               /\ pc' = "data"
               /\ raised' = raised
    /\ UNCHANGED <<jobs_data, builderVars, status, solution, resultVars>>

\* the script passes the module's own list; another caller passes its own
ArgLists == IF jobs_data = None THEN OtherLists
            ELSE {jobs_data[1]} \cup OtherLists

NewData == \E J \in ArgLists : DataInit(J)

\* ----------------------------------------------------------------------
\* JSPModel.__init__
\* ----------------------------------------------------------------------
JSPModelInit ==
    /\ pc = "data"
    /\ pc' = "model"
    /\ status' = "NONE"
    /\ UNCHANGED <<jobs_data, arg, data, raised, builderVars, solution, resultVars>>

\* ----------------------------------------------------------------------
\* JSPModel.createVars
\* ----------------------------------------------------------------------
\* the (job_id, task_id) pairs of a job list in the order the nested
\* enumerate() loops visit them
RECURSIVE KeysFrom(_, _)
KeysFrom(jobs, j) ==
    IF j > Len(jobs) THEN <<>>
    ELSE [t \in 1..Len(jobs[j]) |-> <<j - 1, t - 1>>] \o KeysFrom(jobs, j + 1)

Keys(jobs) == KeysFrom(jobs, 1)

TaskAt(jobs, key) == jobs[key[1] + 1][key[2] + 1]

\* task_type(start, end, interval): the two integer variables by their
\* domains, the interval by its fixed size
task_type(h, duration) ==
    [start |-> <<0, h>>, end |-> <<0, h>>, interval |-> duration]

OnMachine(jobs, machine) ==
    SelectSeq(Keys(jobs), LAMBDA key : TaskAt(jobs, key)[1] = machine)

createVars ==
    /\ pc = "model"
    /\ all_tasks' = [key \in Range(Keys(data.jobs_data)) |->
                        task_type(data.horizon, TaskAt(data.jobs_data, key)[2])]
    /\ machine_to_intervals' =
          [machine \in {task[1] : task \in Range(Tasks(data.jobs_data))} |->
              OnMachine(data.jobs_data, machine)]
    /\ pc' = "vars"
    /\ UNCHANGED <<jobs_data, arg, data, raised, no_overlap, precedence, objective,
                   status, solution, resultVars>>

\* ----------------------------------------------------------------------
\* JSPModel.createConstrs
\* ----------------------------------------------------------------------
\* defaultdict(list): reading a missing key yields an empty list and stores it
Lookup(d, k) == IF k \in DOMAIN d THEN d[k] ELSE <<>>

Vivify(d, ks) == [k \in DOMAIN d \cup ks |-> Lookup(d, k)]

\* variant: the loop over the machines starts at 1
ConstrainedMachinesFromOne(d) == 1..(d.machines_count - 1)

\* machines that get a no-overlap constraint
ConstrainedMachines(d) == all_machines(d)

NoOverlapConstrs(d, m2i) == {Lookup(m2i, machine) : machine \in ConstrainedMachines(d)}

PrecedenceConstrs(jobs) ==
    {<< <<j - 1, t>>, <<j - 1, t - 1>> >> : 
        <<j, t>> \in {jt \in (1..Len(jobs)) \X (1..MaxLenOf(jobs)) : jt[2] <= Len(jobs[jt[1]]) - 1}}

createConstrs ==
    /\ pc = "vars"
    /\ no_overlap' = NoOverlapConstrs(data, machine_to_intervals)
    /\ machine_to_intervals' = Vivify(machine_to_intervals, all_machines(data))
    /\ precedence' = PrecedenceConstrs(data.jobs_data)
    /\ pc' = "constrs"
    /\ UNCHANGED <<jobs_data, arg, data, raised, all_tasks, objective,
                   status, solution, resultVars>>

\* ----------------------------------------------------------------------
\* JSPModel.createObj
\* ----------------------------------------------------------------------
\* the end variables bound by the max-equality: one per job
ObjectiveEnds(jobs) == [j \in 1..Len(jobs) |-> <<j - 1, Len(jobs[j]) - 1>>]

createObj ==
    /\ pc = "constrs"
    /\ IF \E key \in Range(ObjectiveEnds(data.jobs_data)) : key \notin DOMAIN all_tasks
          THEN /\ raised' = "KeyError"
               /\ pc' = "error"
               /\ objective' = objective
          ELSE /\ objective' = Some([var |-> <<0, data.horizon>>,
                                     ends |-> ObjectiveEnds(data.jobs_data)])
               /\ pc' = "obj"
               /\ raised' = raised
    /\ UNCHANGED <<jobs_data, arg, data, all_tasks, machine_to_intervals, no_overlap,
                   precedence, status, solution, resultVars>>

\* ----------------------------------------------------------------------
\* The CP-SAT engine behind CpSolver.solve: the meaning of the posted model
\* ----------------------------------------------------------------------
OK == {"OPTIMAL", "FEASIBLE"}

\* lexicographic order of (job_id, task_id) keys
KeyLess(a, b) == a[1] < b[1] \/ (a[1] = b[1] /\ a[2] < b[2])

RECURSIVE KeyOrder(_)
KeyOrder(S) ==
    IF S = {} THEN <<>>
    ELSE LET first == CHOOSE k \in S : \A o \in S : o = k \/ KeyLess(k, o)
         IN <<first>> \o KeyOrder(S \ {first})

EndOf(tasks, a, key) == a[key] + tasks[key].interval

\* new_int_var domains and new_interval_var: start + size = end
InDomains(tasks, key, s) ==
    /\ tasks[key].start[1] <= s /\ s <= tasks[key].start[2]
    /\ tasks[key].end[1] <= s + tasks[key].interval
    /\ s + tasks[key].interval <= tasks[key].end[2]

\* add_no_overlap(intervals): the intervals are pairwise disjoint
NoOverlapHolds(tasks, lists, a, key, s) ==
    \A l \in lists : key \in Range(l) =>
        \A other \in Range(l) \cap DOMAIN a : other # key =>
            \/ s + tasks[key].interval <= a[other]
            \/ EndOf(tasks, a, other) <= s

\* variant: the next start is bounded by the previous start, not its end
PrecedenceOnStarts(tasks, pairs, a, key, s) ==
    \A pr \in pairs :
        /\ (pr[1] = key /\ pr[2] \in DOMAIN a) => s >= a[pr[2]]
        /\ (pr[2] = key /\ pr[1] \in DOMAIN a) => a[pr[1]] >= s

\* add(start(next) >= end(prev))
PrecedenceHolds(tasks, pairs, a, key, s) ==
    \A pr \in pairs :
        /\ (pr[1] = key /\ pr[2] \in DOMAIN a) => s >= EndOf(tasks, a, pr[2])
        /\ (pr[2] = key /\ pr[1] \in DOMAIN a) => a[pr[1]] >= s + tasks[key].interval

\* add_max_equality(obj_var, ends) with obj_var <= k
MakespanWithin(tasks, obj, key, s, k) ==
    key \in Range(obj.ends) =>
        /\ obj.var[1] <= s + tasks[key].interval
        /\ s + tasks[key].interval <= k

Candidates(tasks, lists, pairs, obj, a, key, k) ==
    {s \in tasks[key].start[1]..tasks[key].start[2] :
        /\ InDomains(tasks, key, s)
        /\ NoOverlapHolds(tasks, lists, a, key, s)
        /\ PrecedenceHolds(tasks, pairs, a, key, s)
        /\ MakespanWithin(tasks, obj, key, s, k)}

\* every assignment of the start variables of keys that satisfies the
\* posted constraints with makespan at most k
RECURSIVE Assignments(_, _, _, _, _, _)
Assignments(tasks, lists, pairs, obj, keys, k) ==
    IF keys = <<>> THEN {<<>>}
    ELSE LET key == keys[Len(keys)]
             rest == Assignments(tasks, lists, pairs, obj, SubSeq(keys, 1, Len(keys) - 1), k)
         IN UNION {{a @@ (key :> s) :
                       s \in Candidates(tasks, lists, pairs, obj, a, key, k)} : a \in rest}

Schedules(tasks, lists, pairs, obj, k) ==
    IF obj.ends = <<>> THEN {}
    ELSE Assignments(tasks, lists, pairs, obj, KeyOrder(DOMAIN tasks), k)

\* the least makespan the posted model admits, -1 when it admits none
RECURSIVE LeastMakespan(_, _, _, _, _)
LeastMakespan(tasks, lists, pairs, obj, k) ==
    IF k > obj.var[2] THEN -1
    ELSE IF Schedules(tasks, lists, pairs, obj, k) # {} THEN k
    ELSE LeastMakespan(tasks, lists, pairs, obj, k + 1)

SetMin(S) == CHOOSE x \in S : \A y \in S : x <= y

\* variant: the objective variable is bound by a min-equality
ValuationMinEquality(tasks, obj, a) ==
    [start |-> a,
     end |-> [key \in DOMAIN a |-> EndOf(tasks, a, key)],
     makespan |-> SetMin({EndOf(tasks, a, key) : key \in Range(obj.ends)})]

Valuation(tasks, obj, a) ==
    [start |-> a,
     end |-> [key \in DOMAIN a |-> EndOf(tasks, a, key)],
     makespan |-> SetMax({EndOf(tasks, a, key) : key \in Range(obj.ends)})]

Min(x, y) == IF x <= y THEN x ELSE y

\* what a search may end with: UNKNOWN when it is cut short, INFEASIBLE
\* when the model has no solution, OPTIMAL with a solution of least
\* makespan, FEASIBLE with any solution (here: within MaxSlack of the least)
SolverOutcomes(tasks, lists, pairs, obj) ==
    {[status |-> "UNKNOWN", solution |-> NoSolution]} \cup
    UNION {IF best = -1
           THEN {[status |-> "INFEASIBLE", solution |-> NoSolution]}
           ELSE {[status |-> "OPTIMAL", solution |-> Valuation(tasks, obj, a)] :
                    a \in Schedules(tasks, lists, pairs, obj, best)} \cup
                {[status |-> "FEASIBLE", solution |-> Valuation(tasks, obj, a)] :
                    a \in Schedules(tasks, lists, pairs, obj,
                                    Min(obj.var[2], best + MaxSlack))} :
           best \in {LeastMakespan(tasks, lists, pairs, obj, 0)}}

\* ----------------------------------------------------------------------
\* JSPModel.solve
\* ----------------------------------------------------------------------
\* a log record: level, message and the value interpolated into it
Record(level, text, value) == [level |-> level, text |-> text, value |-> value]

solve ==
    /\ pc = "obj"
    /\ \E outcome \in SolverOutcomes(all_tasks, no_overlap, precedence, objective[1]) :
          /\ status' = outcome.status
          /\ solution' = outcome.solution
          /\ log' = <<Record("INFO", "Start solving model...", <<>>),
                      IF outcome.status \in OK
                         THEN Record("INFO", "Solve finished successfully.", <<>>)
                         ELSE Record("WARNING", "No solution found.", <<>>)>>
    /\ pc' = "solved"
    /\ UNCHANGED <<jobs_data, arg, data, raised, builderVars, assigned_jobs, output, reads>>

\* ----------------------------------------------------------------------
\* JSPModel.extract_solution
\* ----------------------------------------------------------------------
\* assigned_task_type(start, job, index, duration): a named tuple
assigned_task_type(start, job, index, duration) == <<start, job, index, duration>>

\* variant: the inner loop stops one task short
ExtractedKeysShort(jobs) ==
    SelectSeq(Keys(jobs), LAMBDA key : key[2] < Len(jobs[key[1] + 1]) - 1)

\* the keys the two enumerate() loops visit, each one read through solver.value
ExtractedKeys(jobs) == Keys(jobs)

Assigned(jobs, sol, key) ==
    assigned_task_type(sol.start[key], key[1], key[2], TaskAt(jobs, key)[2])

\* defaultdict(list) filled by appending in visiting order
Buckets(jobs, sol) ==
    [machine \in {TaskAt(jobs, key)[1] : key \in Range(ExtractedKeys(jobs))} |->
        LET keys == SelectSeq(ExtractedKeys(jobs),
                              LAMBDA key : TaskAt(jobs, key)[1] = machine)
        IN [i \in 1..Len(keys) |-> Assigned(jobs, sol, keys[i])]]

extract_solution ==
    IF status \notin OK THEN None ELSE Some(Buckets(data.jobs_data, solution))

\* variant: no early return on the status
ReadsOfExtractUnguarded == Range(ExtractedKeys(data.jobs_data))

ReadsOfExtract ==
    IF status \notin OK THEN {} ELSE Range(ExtractedKeys(data.jobs_data))

\* ----------------------------------------------------------------------
\* JSPModel.format_solution
\* ----------------------------------------------------------------------
\* tuple comparison of two assigned tasks, as list.sort() applies it
TaskLess(a, b) ==
    \/ a[1] < b[1]
    \/ a[1] = b[1] /\ a[2] < b[2]
    \/ a[1] = b[1] /\ a[2] = b[2] /\ a[3] < b[3]
    \/ a[1] = b[1] /\ a[2] = b[2] /\ a[3] = b[3] /\ a[4] < b[4]

RECURSIVE InsertSorted(_, _)
InsertSorted(s, x) ==
    IF s = <<>> THEN <<x>>
    ELSE IF TaskLess(x, s[1]) THEN <<x>> \o s
    ELSE <<s[1]>> \o InsertSorted(Tail(s), x)

\* variant: the bucket is left as filled
Unsorted(s) == s

\* list.sort(): ascending and stable
RECURSIVE Sorted(_)
Sorted(s) ==
    IF s = <<>> THEN <<>>
    ELSE InsertSorted(Sorted(SubSeq(s, 1, Len(s) - 1)), s[Len(s)])

\* the buckets after the in-place sorts of the machines the loop visits
SortedBuckets(d, buckets) ==
    [machine \in DOMAIN buckets \cup all_machines(d) |->
        IF machine \in all_machines(d)
           THEN Sorted(Lookup(buckets, machine))
           ELSE buckets[machine]]

\* the two lines of one machine, column by column: the task names
\* job_<job>_task_<index> and the intervals [start,start+duration]
MachineLines(machine, bucket) ==
    [machine |-> machine,
     names |-> [i \in 1..Len(bucket) |-> <<bucket[i][2], bucket[i][3]>>],
     times |-> [i \in 1..Len(bucket) |-> <<bucket[i][1], bucket[i][1] + bucket[i][4]>>]]

format_solution(d, buckets) ==
    [i \in 1..d.machines_count |->
        MachineLines(i - 1, SortedBuckets(d, buckets)[i - 1])]

\* ----------------------------------------------------------------------
\* JSPModel.log_solution
\* ----------------------------------------------------------------------
Constructed == pc \in {"model", "vars", "constrs", "obj", "solved"}

\* run_model calls log_solution after solve; like extract_solution and
\* format_solution it is a public method that any caller may invoke on a
\* constructed JSPModel
log_solution ==
    /\ Constructed
    /\ IF status \notin OK
          THEN /\ log' = <<Record("WARNING", "No feasible solution to log.", <<>>)>>
               /\ reads' = reads
          ELSE /\ log' = <<Record("INFO", "Optimal Schedule Length", <<solution.makespan>>),
                           Record("INFO", "schedule",
                                  format_solution(data, extract_solution[1]))>>
               /\ reads' = ReadsOfExtract
    /\ UNCHANGED <<jobs_data, arg, data, pc, raised, builderVars, status, solution,
                   assigned_jobs, output>>

\* a call of extract_solution; the caller keeps the result
CallExtractSolution ==
    /\ Constructed
    /\ assigned_jobs' = extract_solution
    /\ reads' = ReadsOfExtract
    /\ UNCHANGED <<jobs_data, arg, data, pc, raised, builderVars, status, solution,
                   output, log>>

\* a call of format_solution on the schedule extract_solution returned:
\* the buckets are sorted in place and the text is returned
CallFormatSolution ==
    /\ Constructed
    /\ assigned_jobs # None
    /\ output' = Some(format_solution(data, assigned_jobs[1]))
    /\ assigned_jobs' = Some(SortedBuckets(data, assigned_jobs[1]))
    /\ UNCHANGED <<jobs_data, arg, data, pc, raised, builderVars, status, solution,
                   log, reads>>

Next ==
    \/ NewData
    \/ JSPModelInit
    \/ createVars
    \/ createConstrs
    \/ createObj
    \/ solve
    \/ log_solution
    \/ CallExtractSolution
    \/ CallFormatSolution

Spec == Init /\ [][Next]_vars
\* ----------------------------------------------------------------------
\* Properties
\* ----------------------------------------------------------------------
\* every assigned task held in the buckets of an extracted schedule
AssignedTasks(buckets) == UNION {Range(buckets[machine]) : machine \in DOMAIN buckets}

\* positions <<machine, i>> at which the task (job, index) occurs
Occurrences(buckets, key) ==
    {p \in UNION {{<<machine, i>> : i \in 1..Len(buckets[machine])} :
                     machine \in DOMAIN buckets} :
        buckets[p[1]][p[2]][2] = key[1] /\ buckets[p[1]][p[2]][3] = key[2]}

Overlap(x, y) == x[1] < y[1] + y[4] /\ y[1] < x[1] + x[4]

\* the argument of Data(...) is the list the module-level name is bound to,
\* as in the script
DataConsistent == jobs_data = Some(arg)

PrecedenceIn(buckets) ==
    \A x, y \in AssignedTasks(buckets) :
        (x[2] = y[2] /\ y[3] = x[3] + 1) => y[1] >= x[1] + x[4]

\* C1: in every schedule extract_solution returns under status OPTIMAL or
\* FEASIBLE, a task of a job starts no earlier than the start of the
\* preceding task of the same job plus that task's duration.
C1_PrecedenceRespected ==
    /\ status \in OK => PrecedenceIn(extract_solution[1])
    /\ assigned_jobs # None => PrecedenceIn(assigned_jobs[1])

C1_Witness ==
    /\ assigned_jobs # None
    /\ ValidInstance(data.jobs_data)
    /\ \E x, y \in AssignedTasks(assigned_jobs[1]) :
          x[2] = y[2] /\ y[3] = x[3] + 1 /\ y[1] > x[1] + x[4]

\* C2: in every schedule extracted for a valid instance, no two distinct
\* assigned tasks of one machine bucket overlap in [start, start + duration).
C2_NoOverlapInBuckets ==
    (assigned_jobs # None /\ ValidInstance(data.jobs_data) /\ ValidInstance(arg)) =>
        \A machine \in DOMAIN assigned_jobs[1] :
            \A x, y \in Range(assigned_jobs[1][machine]) : x # y => ~Overlap(x, y)

\* C2 restricted to a Data object that was given the module's own list
C2_NoOverlapWhenDataConsistent == DataConsistent => C2_NoOverlapInBuckets

\* C3: an extracted schedule holds every (job_id, task_id) of the instance
\* exactly once, in the bucket of its machine, and nothing else.
C3_ExtractionComplete ==
    assigned_jobs # None =>
        /\ \A key \in Range(Keys(data.jobs_data)) :
              /\ Cardinality(Occurrences(assigned_jobs[1], key)) = 1
              /\ \A p \in Occurrences(assigned_jobs[1], key) :
                    /\ p[1] = TaskAt(data.jobs_data, key)[1]
                    /\ assigned_jobs[1][p[1]][p[2]][4] = TaskAt(data.jobs_data, key)[2]
                    /\ assigned_jobs[1][p[1]][p[2]][1] = solution.start[key]
        /\ Cardinality(UNION {Occurrences(assigned_jobs[1], <<x[2], x[3]>>) :
                                  x \in AssignedTasks(assigned_jobs[1])})
              = Len(Tasks(data.jobs_data))

C3_Witness ==
    /\ assigned_jobs # None
    /\ ValidInstance(data.jobs_data)
    /\ Len(Tasks(data.jobs_data)) >= 3
    /\ Cardinality({m \in DOMAIN assigned_jobs[1] : assigned_jobs[1][m] # <<>>}) >= 2

LastTaskEnds(jobs, buckets) ==
    {x[1] + x[4] : x \in {y \in AssignedTasks(buckets) :
                             y[3] = Len(jobs[y[2] + 1]) - 1}}

\* C4: the makespan that log_solution reports is the maximum, over the jobs,
\* of extracted start plus duration of the job's last task.
C4_MakespanIsMaxOfLastEnds ==
    (log # <<>> /\ log[1].text = "Optimal Schedule Length") =>
        log[1].value[1] = SetMax(LastTaskEnds(data.jobs_data, extract_solution[1]))

C4_Witness ==
    /\ log # <<>> /\ log[1].text = "Optimal Schedule Length"
    /\ status \in OK
    /\ Len(data.jobs_data) >= 2
    /\ \E x \in AssignedTasks(extract_solution[1]) : x[1] + x[4] < log[1].value[1]
    /\ \E j \in 1..Len(data.jobs_data) : Len(data.jobs_data[j]) >= 2

\* the script's run, after solve
MainRun == DataConsistent /\ arg = MainJobs /\ pc = "solved"

\* C5: for the three-job list of the script the posted model has a solution,
\* no solution has a makespan below 11, and an OPTIMAL solve has objective 11.
C5_MainOptimumIs11 ==
    MainRun =>
        /\ status # "INFEASIBLE"
        /\ status \in OK => solution.makespan >= 11
        /\ status = "OPTIMAL" => solution.makespan = 11

C5_Witness == MainRun /\ status = "OPTIMAL" /\ solution.makespan = 11

\* C6: constructing Data from an invalid job list (no job, an empty job, a
\* duration of 0 or less, a negative machine id) fails with
\* InvalidInstanceError and leaves no solver variable constructed.
C6_InvalidInstanceRejected ==
    (pc # "start" /\ DataConsistent /\ ~ValidInstance(arg)) =>
        /\ raised = "InvalidInstanceError"
        /\ all_tasks = <<>>

\* C7: solver values are read and a schedule is formatted only under status
\* OPTIMAL or FEASIBLE; under any other status, also before solve has run,
\* extract_solution has returned None without reading a variable and
\* log_solution has ended with its warning, and neither raised.
C7_OnlyWhenSolved ==
    status \notin OK =>
        /\ assigned_jobs = None
        /\ reads = {}
        /\ output = None
        /\ log \in {<<>>,
                    <<Record("WARNING", "No feasible solution to log.", <<>>)>>,
                    <<Record("INFO", "Start solving model...", <<>>),
                      Record("WARNING", "No solution found.", <<>>)>>}
        /\ Constructed => raised = ""

C7_Witness ==
    /\ status = "NONE"
    /\ pc = "obj"
    /\ log = <<Record("WARNING", "No feasible solution to log.", <<>>)>>
    /\ ValidInstance(data.jobs_data)

LineSorted(line) ==
    \A i \in 1..(Len(line.names) - 1) :
        \/ line.times[i][1] < line.times[i + 1][1]
        \/ /\ line.times[i][1] = line.times[i + 1][1]
           /\ KeyLess(line.names[i], line.names[i + 1])

\* C8: every machine line of a formatted schedule, returned by
\* format_solution or logged by log_solution, lists the tasks in ascending
\* order of (start, job_id, task_id).
C8_FormattedInOrder ==
    /\ output # None => \A i \in 1..Len(output[1]) : LineSorted(output[1][i])
    /\ \A r \in 1..Len(log) : log[r].text = "schedule" =>
          \A i \in 1..Len(log[r].value) : LineSorted(log[r].value[i])

C8_Witness ==
    /\ output # None
    /\ \E i \in 1..Len(output[1]) :
          /\ Len(output[1][i].names) >= 2
          /\ output[1][i].names[1][1] > output[1][i].names[2][1]

\* C9: the model built for a valid instance always has a solution within
\* the domains [0, horizon]: solve never ends INFEASIBLE.
C9_ValidInstanceFeasible ==
    (pc = "solved" /\ ValidInstance(data.jobs_data) /\ ValidInstance(arg)) =>
        status # "INFEASIBLE"

\* C9 restricted to a Data object that was given the module's own list
C9_FeasibleWhenDataConsistent == DataConsistent => C9_ValidInstanceFeasible

\* C10: the jobs a Data object holds are the list it was constructed from, so
\* machines_count and horizon are derived from the jobs the builder iterates.
C10_DataHoldsItsArgument ==
    pc \notin {"start", "error"} =>
        /\ data.jobs_data = arg
        /\ data.horizon = horizon(data.jobs_data)
        /\ \A task \in Range(Tasks(data.jobs_data)) :
              0 <= task[1] /\ task[1] < data.machines_count
=============================================================================
